---- MODULE Spec2Model ----
(***************************************************************************)
(* Model of streamlit_app.py: the MQTT ingestion bridge of the dashboard.  *)
(*                                                                         *)
(* Two kinds of execution contexts act on the state:                       *)
(*   - the foreground (the script of the consumer), which calls            *)
(*     start_mqtt / stop_mqtt / "Reconectar" / "Limpiar graficos", the     *)
(*     status refresh and the snapshot copy, and which re-executes the     *)
(*     module-level statements on every script run;                        *)
(*   - the background threads created by start_mqtt, each running _loop    *)
(*     (connect, loop_forever) and, from inside loop_forever, the          *)
(*     callbacks on_connect, on_disconnect and on_message.                 *)
(*                                                                         *)
(* Every "with LOCK:" block is modelled with the lock it takes: a block    *)
(* of one statement is one action guarded by the lock being free; the      *)
(* block of on_message (append, then log) is two actions with the lock     *)
(* held in between.                                                        *)
(***************************************************************************)
EXTENDS Integers, Sequences, FiniteSets, TLC

\* ------------------------------------------------------------------ bounds
\* deque(maxlen=200) of each channel, scaled down
BufCap == 2
\* deque(maxlen=400) of the debug log, scaled down
DebugCap == 2
\* list(DEBUG)[:50], scaled down (kept below DebugCap as 50 is below 400)
DebugShow == 1
\* number of threads start_mqtt may create in a behaviour
MaxThreads == 2
\* number of script runs (each run re-executes the module-level statements)
MaxRuns == 2
\* sample values carried by messages: 1..MaxVal
MaxVal == 2
\* A behaviour spends a budget of sample messages (known channel, value a
\* double holds), other messages, foreground operations, and on_connect or
\* on_disconnect invocations. Four budgets: one long on ingestion, with
\* more samples than a buffer holds ...
IngestBudget == [samples |-> BufCap + 1, odd |-> 0, ops |-> 2, events |-> 1]
\* ... one where the page is drawn and cleared while a buffer fills ...
PageBudget == [samples |-> 2, odd |-> 0, ops |-> 3, events |-> 1]
\* ... one long on supervisor operations, enough to create every thread
\* with a stop and a repeated start in between ...
ControlBudget == [samples |-> 0, odd |-> 0, ops |-> MaxThreads + 2, events |-> 1]
\* ... and one long on transport events and irregular messages
TransportBudget == [samples |-> 1, odd |-> 1, ops |-> 2, events |-> 3]
\* The budget of the behaviours checked for progress: enough operations for
\* two threads to be alive, one of them subscribed
LockBudget == [samples |-> 1, odd |-> 1, ops |-> 3, events |-> 1]

\* ------------------------------------------------------------- data model
Channels == {"temp", "hum", "prox"}

Threads == 1..MaxThreads
Gens == 1..MaxRuns

\* None of session_state.get(...) for a client or thread handle
NoHandle == 0
\* LOCK when no thread holds it (a holder is a thread, 1..MaxThreads)
Unlocked == 0

\* JSON values a payload may carry in a field. "bigint" is an integer literal
\* beyond the range of a double (json.loads yields a Python int of any size).
Null == [k |-> "null", n |-> 0]
JInt(n) == [k |-> "int", n |-> n]
JBigInt == [k |-> "bigint", n |-> 0]
JText == [k |-> "str", n |-> 0]
JValues == {JInt(n) : n \in 1..MaxVal} \cup {JBigInt, JText}

\* A JSON number, as opposed to a string or null
IsNumeric(v) == v.k \in {"int", "bigint"}

\* Payload bytes, by what msg.payload.decode and json.loads make of them
Payloads ==
    [form : {"badutf8", "badjson", "nonobj"}, has : {FALSE}, value : {Null}]
    \cup [form : {"obj"}, has : {FALSE}, value : {Null}]
    \cup [form : {"obj"}, has : {TRUE}, value : JValues]

\* The text the status heuristic looks for in the newest debug line
StatusMarker == "[on_connect] rc=0"

\* Topics as the list of their '/'-separated segments: the three channels,
\* the generic .../state, and a topic under base/# whose text holds the
\* status marker
Topics == { <<"base", "temp">>, <<"base", "hum">>, <<"base", "prox">>,
            <<"base", "state">>, <<"base", StatusMarker>> }

\* result codes handed to on_connect: 0 = accepted, 5 = refused
ResultCodes == {0, 5}

NoMsg == [topic |-> <<>>, payload |-> [form |-> "none", has |-> FALSE, value |-> Null]]

\* ---------------------------------------------------------- debug records
ConnectRec(rc) == [tag |-> "on_connect", rc |-> rc, topic |-> <<>>, value |-> Null]
DisconnectRec(rc) == [tag |-> "on_disconnect", rc |-> rc, topic |-> <<>>, value |-> Null]
\* Mutant of MessageRec: the record written after the append is a parse error
MessageRecAsError(topic, p) ==
    [tag |-> "parse-error", rc |-> 0, topic |-> topic, value |-> Null]

\* json.dumps(show): the topic and p.get("value") (null when absent)
MessageRec(topic, p) ==
    [tag |-> "message", rc |-> 0, topic |-> topic,
     value |-> IF p.has THEN p.value ELSE Null]
ParseErrorRec(topic) == [tag |-> "parse-error", rc |-> 0, topic |-> topic, value |-> Null]
ThreadOkRec == [tag |-> "mqtt-thread-ok", rc |-> 0, topic |-> <<>>, value |-> Null]
ThreadExcRec == [tag |-> "mqtt-thread-exc", rc |-> 0, topic |-> <<>>, value |-> Null]
NoRec == [tag |-> "none", rc |-> 0, topic |-> <<>>, value |-> Null]

\* ------------------------------------------------------ bounded containers
\* The last n elements of s (all of s when it is shorter)
LastN(s, n) == IF Len(s) <= n THEN s ELSE SubSeq(s, Len(s) - n + 1, Len(s))
\* The first n elements of s
FirstN(s, n) == IF Len(s) <= n THEN s ELSE SubSeq(s, 1, n)

\* Mutant of DequeAppend: a full buffer keeps its contents and drops x
DequeAppendKeepsOldest(buf, x, cap) ==
    IF Len(buf) < cap THEN Append(buf, x) ELSE buf

\* deque(maxlen=cap).append(x): push at the tail, drop from the head
DequeAppend(buf, x, cap) ==
    IF Len(buf) < cap THEN Append(buf, x)
    ELSE IF cap = 0 THEN buf
    ELSE Append(Tail(buf), x)

\* Mutant of DequeAppendLeft: append() in place of appendleft()
DequeAppendRight(buf, x, cap) ==
    IF Len(buf) < cap THEN Append(buf, x)
    ELSE IF cap = 0 THEN buf
    ELSE Append(Tail(buf), x)

\* deque(maxlen=cap).appendleft(x): push at the head, drop from the tail
DequeAppendLeft(buf, x, cap) ==
    IF Len(buf) < cap THEN <<x>> \o buf
    ELSE IF cap = 0 THEN buf
    ELSE <<x>> \o SubSeq(buf, 1, cap - 1)

RECURSIVE DequeExtend(_, _, _)
\* deque(maxlen=cap).extend(xs): append the elements of xs one at a time
DequeExtend(buf, xs, cap) ==
    IF xs = <<>> THEN buf
    ELSE DequeExtend(DequeAppend(buf, Head(xs), cap), Tail(xs), cap)

\* store[k][-1] if len(store[k]) else None, as a sequence of at most one value
Latest(buf) == IF Len(buf) > 0 THEN <<buf[Len(buf)]>> ELSE <<>>

EmptyStore == [c \in Channels |-> <<>>]

\* ---------------------------------------------------------------- parsing
\* msg.topic.split("/")[-1]
LastSegment(topic) == topic[Len(topic)]

\* json.loads(msg.payload.decode("utf-8")) returns (TRUE) or raises (FALSE)
Decodes(p) == p.form \notin {"badutf8", "badjson"}

\* Mutant of Float: the value is taken from the field "v", which is absent,
\* so float(None) raises
FloatWrongField(v) == [ok |-> FALSE, f |-> 0]

\* float(x): the double of a JSON value, or ok = FALSE when float() raises
\* (TypeError for null, ValueError for text, OverflowError for a big integer)
Float(v) ==
    IF v.k = "int" THEN [ok |-> TRUE, f |-> v.n]
    ELSE [ok |-> FALSE, f |-> 0]

\* json.loads returned a dict: for anything else the test '"value" in p'
\* raises, or p.get raises when show is built
IsObject(p) == p.form = "obj"

\* Mutant of AppendGuard: the test '"value" in p' is missing
AppendGuardNoValueTest(topic, p) == LastSegment(topic) \in Channels

\* The guard of the append: sensor in STORE and "value" in p
AppendGuard(topic, p) == LastSegment(topic) \in Channels /\ p.has

\* The message makes on_message append: the guard holds and float() returns
Accepted(topic, p) ==
    /\ Decodes(p)
    /\ IsObject(p)
    /\ AppendGuard(topic, p)
    /\ Float(p.value).ok

\* The message makes the try-block of on_message raise
Raises(topic, p) ==
    \/ ~Decodes(p)
    \/ ~IsObject(p)
    \/ (AppendGuard(topic, p) /\ ~Float(p.value).ok)

\* The class of the exception the try-block raises for a message that raises
Raised(topic, p) ==
    IF p.form = "badutf8" THEN "UnicodeDecodeError"
    ELSE IF p.form = "badjson" THEN "JSONDecodeError"
    ELSE IF p.form = "nonobj" THEN "TypeError"
    ELSE IF ~p.has THEN "KeyError"
    ELSE IF p.value.k = "bigint" THEN "OverflowError"
    ELSE IF p.value.k = "str" THEN "ValueError"
    ELSE "TypeError"

\* Mutant of Catches: "except ValueError" in place of "except Exception"
CatchesValueErrorOnly(exc) ==
    exc \in {"UnicodeDecodeError", "JSONDecodeError", "ValueError"}

\* "except Exception" catches every one of these classes
Catches(exc) == TRUE

\* ------------------------------------------------------------------ state
VARIABLES
    gen,          \* the script run whose module globals the foreground uses
    STORE,        \* STORE of each run's module: channel -> samples
    DEBUG,        \* DEBUG of each run's module: records, most recent first
    LOCK,         \* LOCK of each run's module: its holder (Unlocked when none)
    ss_store,     \* st.session_state.store
    ss_debug,     \* st.session_state.debug
    status,       \* st.session_state.status
    mqtt_client,  \* st.session_state.mqtt_client (NoHandle when unset)
    mqtt_thread,  \* st.session_state.mqtt_thread (NoHandle when unset)
    mqtt_running, \* st.session_state.mqtt_running
    fpc,          \* where the foreground is: "idle", or "sleep" in Reconectar
    nthreads,     \* number of threads (and clients) created so far
    tpc,          \* position of each background thread
    tgen,         \* the run whose module globals a thread's callbacks use
    cur,          \* the message on_message is handling, per thread
    subscribed,   \* the client of the thread holds the base/# subscription
    discReq,      \* disconnect() has been called on the client of the thread
    budget,       \* what is left of the behaviour's budget
    hist,         \* history: values appended per run and channel since a clear
    lastLog,      \* history: the record of the last completed log write, per run
    lastOp,       \* history: the foreground operation that completed last
    bgSession     \* history: the session_state entries background threads read

vars == << gen, STORE, DEBUG, LOCK, ss_store, ss_debug, status, mqtt_client,
           mqtt_thread, mqtt_running, fpc, nthreads, tpc, tgen, cur,
           subscribed, discReq, budget, hist, lastLog, lastOp, bgSession >>

sessionVars == << ss_store, ss_debug, status, mqtt_client, mqtt_thread, mqtt_running >>
threadVars == << nthreads, tpc, tgen, cur, subscribed, discReq >>
storeVars == << STORE, DEBUG, LOCK, hist, lastLog >>

Budgets == {IngestBudget, PageBudget, ControlBudget, TransportBudget}

\* Thread.is_alive(): started and _loop has not returned
IsAlive(i) == i \in Threads /\ tpc[i] \notin {"unborn", "done"}

LiveThreads == {i \in Threads : IsAlive(i)}

\* The state after the first execution of the module-level statements
\* (STORE, DEBUG, LOCK and the session_state defaults), before start_mqtt.
InitWith(budgets) ==
    /\ gen = 1
    /\ STORE = [g \in Gens |-> EmptyStore]
    /\ DEBUG = [g \in Gens |-> <<>>]
    /\ LOCK = [g \in Gens |-> Unlocked]
    /\ ss_store = EmptyStore
    /\ ss_debug = <<>>
    /\ status = "disconnected"
    /\ mqtt_client = NoHandle
    /\ mqtt_thread = NoHandle
    /\ mqtt_running = FALSE
    /\ fpc = "idle"
    /\ nthreads = 0
    /\ tpc = [i \in Threads |-> "unborn"]
    /\ tgen = [i \in Threads |-> 1]
    /\ cur = [i \in Threads |-> NoMsg]
    /\ subscribed = [i \in Threads |-> FALSE]
    /\ discReq = [i \in Threads |-> FALSE]
    /\ budget \in budgets
    /\ hist = [g \in Gens |-> EmptyStore]
    /\ lastLog = [g \in Gens |-> NoRec]
    /\ lastOp = "none"
    /\ bgSession = {}

Init == InitWith(Budgets)

\* DEBUG.appendleft(rec) on the log of run g
LogEvent(g, rec) ==
    /\ DEBUG' = [DEBUG EXCEPT ![g] = DequeAppendLeft(DEBUG[g], rec, DebugCap)]
    /\ lastLog' = [lastLog EXCEPT ![g] = rec]

\* ------------------------------------------------------ background thread
\* _loop: client.connect(...) returns and the thread logs it, or it raises
LoopConnect(i, ok) ==
    /\ tpc[i] = "init"
    /\ IF ok
       THEN /\ LOCK[tgen[i]] = Unlocked
            /\ LogEvent(tgen[i], ThreadOkRec)
            /\ tpc' = [tpc EXCEPT ![i] = "loop"]
       ELSE /\ tpc' = [tpc EXCEPT ![i] = "exc"]
            /\ UNCHANGED << DEBUG, lastLog >>
    /\ UNCHANGED << gen, STORE, LOCK, hist, sessionVars, fpc, nthreads, tgen, cur,
                    subscribed, discReq, budget, lastOp, bgSession >>

\* The entries of st.session_state: cfg, store, debug, status and the mqtt_*
\* fields of the supervisor
SessionKeys == {"cfg", "store", "debug", "status",
                "mqtt_client", "mqtt_thread", "mqtt_running"}

\* The entries of st.session_state that on_connect reads:
\* base = st.session_state.cfg["MQTT_BASE_TOPIC"]
OnConnectReads == {"cfg"}

\* on_connect: log rc under LOCK, read session_state.cfg (which raises when
\* the thread has no script context: cfgOk = FALSE), subscribe to base/#
OnConnect(i, rc, cfgOk) ==
    /\ tpc[i] = "loop"
    /\ budget.events > 0
    /\ budget' = [budget EXCEPT !.events = @ - 1]
    /\ LOCK[tgen[i]] = Unlocked
    /\ LogEvent(tgen[i], ConnectRec(rc))
    /\ IF cfgOk
       THEN /\ subscribed' = [subscribed EXCEPT ![i] = (rc = 0)]
            /\ tpc' = tpc
       ELSE /\ tpc' = [tpc EXCEPT ![i] = "exc"]
            /\ subscribed' = subscribed
    /\ bgSession' = bgSession \cup OnConnectReads
    /\ UNCHANGED << gen, STORE, LOCK, hist, sessionVars, fpc, nthreads, tgen, cur,
                    discReq, lastOp >>

\* Mutant of OnDisconnectReturns: on_disconnect calls client.reconnect()
OnDisconnectReconnects(pos) == "init"

\* on_disconnect after its with-block: it returns to the receive loop
OnDisconnectReturns(pos) == pos

\* on_disconnect: log rc under LOCK; the transport has dropped the session
OnDisconnect(i, rc) ==
    /\ tpc[i] = "loop"
    /\ budget.events > 0
    /\ budget' = [budget EXCEPT !.events = @ - 1]
    /\ LOCK[tgen[i]] = Unlocked
    /\ LogEvent(tgen[i], DisconnectRec(rc))
    /\ subscribed' = [subscribed EXCEPT ![i] = FALSE]
    /\ tpc' = [tpc EXCEPT ![i] = OnDisconnectReturns(@)]
    /\ UNCHANGED << gen, STORE, LOCK, hist, sessionVars, fpc, nthreads, tgen, cur,
                    discReq, lastOp, bgSession >>

\* Mutant of WithEnter: the append and the log are not inside "with LOCK:"
WithEnterNoLock(i) == Unlocked

\* The start of "with LOCK:" in on_message: the thread becomes the holder
WithEnter(i) == i

\* on_message, up to the append: decode, split the topic, take LOCK, append.
\* A raise before or inside the with-block releases LOCK and leads to the
\* except clause; otherwise the thread still holds LOCK and logs next.
OnMessage(i, topic, p) ==
    /\ tpc[i] = "loop"
    /\ subscribed[i]
    /\ IF Accepted(topic, p)
       THEN budget.samples > 0 /\ budget' = [budget EXCEPT !.samples = @ - 1]
       ELSE budget.odd > 0 /\ budget' = [budget EXCEPT !.odd = @ - 1]
    /\ cur' = [cur EXCEPT ![i] = [topic |-> topic, payload |-> p]]
    /\ IF ~Decodes(p)
       THEN /\ tpc' = [tpc EXCEPT ![i] =
                  IF Catches(Raised(topic, p)) THEN "msg_exc" ELSE "exc"]
            /\ UNCHANGED << STORE, LOCK, hist >>
       ELSE /\ LOCK[tgen[i]] = Unlocked
            /\ IF Raises(topic, p)
               THEN /\ tpc' = [tpc EXCEPT ![i] =
                          IF Catches(Raised(topic, p)) THEN "msg_exc" ELSE "exc"]
                    /\ UNCHANGED << STORE, LOCK, hist >>
               ELSE /\ tpc' = [tpc EXCEPT ![i] = "msg_log"]
                    /\ LOCK' = [LOCK EXCEPT ![tgen[i]] = WithEnter(i)]
                    /\ IF AppendGuard(topic, p)
                       THEN /\ STORE' = [STORE EXCEPT ![tgen[i]][LastSegment(topic)] =
                                  DequeAppend(@, Float(p.value).f, BufCap)]
                            /\ hist' = [hist EXCEPT ![tgen[i]][LastSegment(topic)] =
                                  Append(@, Float(p.value).f)]
                       ELSE UNCHANGED << STORE, hist >>
    /\ UNCHANGED << gen, DEBUG, lastLog, sessionVars, fpc, nthreads, tgen,
                    subscribed, discReq, lastOp, bgSession >>

\* Mutant of WithExit: leaving the with-block does not release the lock
WithExitKeepsLock(holder) == holder

\* The end of "with LOCK:": the lock is released, whoever held it
WithExit(holder) == Unlocked

\* on_message, the rest of the with-block: log the message, release LOCK
OnMessageLog(i) ==
    /\ tpc[i] = "msg_log"
    /\ LOCK[tgen[i]] = i
    /\ LogEvent(tgen[i], MessageRec(cur[i].topic, cur[i].payload))
    /\ LOCK' = [LOCK EXCEPT ![tgen[i]] = WithExit(@)]
    /\ tpc' = [tpc EXCEPT ![i] = "loop"]
    /\ cur' = [cur EXCEPT ![i] = NoMsg]
    /\ UNCHANGED << gen, STORE, hist, sessionVars, fpc, nthreads, tgen,
                    subscribed, discReq, budget, lastOp, bgSession >>

\* on_message, the except clause: log the parse error under LOCK
OnMessageExcept(i) ==
    /\ tpc[i] = "msg_exc"
    /\ LOCK[tgen[i]] = Unlocked
    /\ LogEvent(tgen[i], ParseErrorRec(cur[i].topic))
    /\ tpc' = [tpc EXCEPT ![i] = "loop"]
    /\ cur' = [cur EXCEPT ![i] = NoMsg]
    /\ UNCHANGED << gen, STORE, LOCK, hist, sessionVars, fpc, nthreads, tgen,
                    subscribed, discReq, budget, lastOp, bgSession >>

\* loop_forever returns once disconnect() was called on the client
LoopExit(i) ==
    /\ tpc[i] = "loop"
    /\ discReq[i]
    /\ tpc' = [tpc EXCEPT ![i] = "done"]
    /\ subscribed' = [subscribed EXCEPT ![i] = FALSE]
    /\ UNCHANGED << gen, storeVars, sessionVars, fpc, nthreads, tgen, cur,
                    discReq, budget, lastOp, bgSession >>

\* Mutant of LoopReturns: the except clause calls connect again
LoopReturnsRetrying(pos) == "init"

\* _loop after its except clause: the function returns, the thread is over
LoopReturns(pos) == "done"

\* _loop, the except clause: log the exception under LOCK; the thread ends
LoopLogExc(i) ==
    /\ tpc[i] = "exc"
    /\ LOCK[tgen[i]] = Unlocked
    /\ LogEvent(tgen[i], ThreadExcRec)
    /\ tpc' = [tpc EXCEPT ![i] = LoopReturns(@)]
    /\ subscribed' = [subscribed EXCEPT ![i] = FALSE]
    /\ UNCHANGED << gen, STORE, LOCK, hist, sessionVars, fpc, nthreads, tgen, cur,
                    discReq, budget, lastOp, bgSession >>

\* -------------------------------------------------------------- foreground
\* start_mqtt's guard: already running, with a recorded thread that is alive
AlreadyRunning ==
    mqtt_running /\ mqtt_thread # NoHandle /\ IsAlive(mqtt_thread)

\* start_mqtt: return when already running; otherwise create a client and
\* a thread bound to the callbacks of the current run, start it, record both
StartBody ==
    IF AlreadyRunning
    THEN UNCHANGED << mqtt_client, mqtt_thread, mqtt_running, threadVars >>
    ELSE /\ nthreads < MaxThreads
         /\ nthreads' = nthreads + 1
         /\ tpc' = [tpc EXCEPT ![nthreads + 1] = "init"]
         /\ tgen' = [tgen EXCEPT ![nthreads + 1] = gen]
         /\ mqtt_client' = nthreads + 1
         /\ mqtt_thread' = nthreads + 1
         /\ mqtt_running' = TRUE
         /\ UNCHANGED << cur, subscribed, discReq >>

\* What the underlying calls of stop_mqtt may do
StopOutcomes == {"ok", "loop_stop raises", "disconnect raises"}

\* Mutant of StopSwallows: no try/except around loop_stop and disconnect
StopSwallowsNothing(outcome) == FALSE

\* "except Exception: pass" swallows whatever loop_stop or disconnect raises
StopSwallows(outcome) == TRUE

\* stop_mqtt returns normally (as opposed to raising to its caller)
StopReturns(outcome) ==
    mqtt_client = NoHandle \/ outcome = "ok" \/ StopSwallows(outcome)

\* stop_mqtt: with a recorded client, loop_stop() then disconnect(); any
\* exception is swallowed; then the running flag is cleared. A raise that
\* escaped would skip the assignment.
StopBody(outcome) ==
    /\ discReq' = IF mqtt_client # NoHandle /\ outcome = "ok"
                  THEN [discReq EXCEPT ![mqtt_client] = TRUE]
                  ELSE discReq
    /\ mqtt_running' = IF StopReturns(outcome) THEN FALSE ELSE mqtt_running
    /\ UNCHANGED << mqtt_client, mqtt_thread, nthreads, tpc, tgen, cur, subscribed >>

StartMqtt ==
    /\ fpc = "idle"
    /\ StartBody
    /\ lastOp' = IF AlreadyRunning THEN "start-noop" ELSE "start"
    /\ budget.ops > 0
    /\ budget' = [budget EXCEPT !.ops = @ - 1]
    /\ UNCHANGED bgSession
    /\ UNCHANGED << gen, storeVars, ss_store, ss_debug, status, fpc >>

StopMqtt(outcome) ==
    /\ fpc = "idle"
    /\ StopBody(outcome)
    /\ lastOp' = IF StopReturns(outcome) THEN "stop" ELSE "stop-raised"
    /\ budget.ops > 0
    /\ budget' = [budget EXCEPT !.ops = @ - 1]
    /\ UNCHANGED bgSession
    /\ UNCHANGED << gen, storeVars, ss_store, ss_debug, status, fpc >>

\* "Reconectar": stop_mqtt(), then time.sleep(0.2) ...
RestartStop(outcome) ==
    /\ fpc = "idle"
    /\ StopBody(outcome)
    /\ fpc' = IF StopReturns(outcome) THEN "sleep" ELSE "idle"
    /\ lastOp' = IF StopReturns(outcome) THEN "restart-stop" ELSE "stop-raised"
    /\ budget.ops > 0
    /\ budget' = [budget EXCEPT !.ops = @ - 1]
    /\ UNCHANGED bgSession
    /\ UNCHANGED << gen, storeVars, ss_store, ss_debug, status >>

\* ... then start_mqtt()
RestartStart ==
    /\ fpc = "sleep"
    /\ StartBody
    /\ fpc' = "idle"
    /\ lastOp' = IF AlreadyRunning THEN "restart-noop" ELSE "restart"
    /\ budget.ops > 0
    /\ budget' = [budget EXCEPT !.ops = @ - 1]
    /\ UNCHANGED bgSession
    /\ UNCHANGED << gen, storeVars, ss_store, ss_debug, status >>

\* Mutant of ClearedStore: only session_state.store is cleared, not STORE
ClearedStoreUntouched(store) == store

\* for k in STORE: STORE[k].clear()
ClearedStore(store) == [c \in Channels |-> <<>>]

\* "Limpiar graficos": clear session_state.store, then STORE under LOCK
ClearAll ==
    /\ fpc = "idle"
    /\ LOCK[gen] = Unlocked
    /\ ss_store' = [c \in Channels |-> <<>>]
    /\ STORE' = [STORE EXCEPT ![gen] = ClearedStore(@)]
    /\ hist' = [hist EXCEPT ![gen] = EmptyStore]
    /\ lastOp' = "clear"
    /\ budget.ops > 0
    /\ budget' = [budget EXCEPT !.ops = @ - 1]
    /\ UNCHANGED bgSession
    /\ UNCHANGED << gen, DEBUG, LOCK, lastLog, ss_debug, status, mqtt_client,
                    mqtt_thread, mqtt_running, fpc, threadVars >>

\* Mutant of SnapshotCopy: extend() without the clear() before it
SnapshotCopyNoClear(old, src) == DequeExtend(old, src, BufCap)

\* store[k].clear(); store[k].extend(STORE[k]) on a deque(maxlen=200)
SnapshotCopy(old, src) == DequeExtend(<<>>, src, BufCap)

\* debug.clear(); debug.extend(list(DEBUG)[:50]) on a deque(maxlen=400)
SnapshotDebug(old, src) == DequeExtend(<<>>, FirstN(src, DebugShow), DebugCap)

\* The snapshot may be taken: "with LOCK" needs the lock free
SnapshotMayRun == LOCK[gen] = Unlocked

\* The copy of STORE and DEBUG into session_state, under LOCK
Snapshot ==
    /\ fpc = "idle"
    /\ SnapshotMayRun
    /\ ss_store' = [c \in Channels |-> SnapshotCopy(ss_store[c], STORE[gen][c])]
    /\ ss_debug' = SnapshotDebug(ss_debug, DEBUG[gen])
    /\ lastOp' = IF lastOp = "clear" THEN "clear+snapshot" ELSE "snapshot"
    /\ budget.ops > 0
    /\ budget' = [budget EXCEPT !.ops = @ - 1]
    /\ UNCHANGED bgSession
    /\ UNCHANGED << gen, storeVars, status, mqtt_client, mqtt_thread, mqtt_running,
                    fpc, threadVars >>

\* The text of a debug line contains the status marker: the line
\* f"[on_connect] rc={rc}" for rc = 0, and the lines that show a topic
\* (json.dumps(show), f"[parse-error] {e} topic={msg.topic}") when the topic
\* contains it
TextHasMarker(rec) ==
    \/ rec.tag = "on_connect" /\ rec.rc = 0
    \/ /\ rec.tag \in {"message", "parse-error"}
       /\ \E k \in 1..Len(rec.topic) : rec.topic[k] = StatusMarker

\* Mutant of HeadIsConnectOk: any on_connect line counts, whatever its rc
HeadIsAnyConnect(dbg) == dbg # <<>> /\ dbg[1].tag = "on_connect"

\* "[on_connect] rc=0" in next(iter(DEBUG), "")
HeadIsConnectOk(dbg) == dbg # <<>> /\ TextHasMarker(dbg[1])

\* The status refresh: read the head of DEBUG under LOCK, set status
StatusRefresh ==
    /\ fpc = "idle"
    /\ LOCK[gen] = Unlocked
    /\ status' = IF HeadIsConnectOk(DEBUG[gen]) THEN "connected" ELSE "disconnected"
    /\ lastOp' = "status"
    /\ budget.ops > 0
    /\ budget' = [budget EXCEPT !.ops = @ - 1]
    /\ UNCHANGED bgSession
    /\ UNCHANGED << gen, storeVars, ss_store, ss_debug, mqtt_client, mqtt_thread,
                    mqtt_running, fpc, threadVars >>

\* A new script run: the module-level statements execute again in a fresh
\* module, so STORE, DEBUG and LOCK of this run are new objects; the
\* session_state entries exist already and are kept.
Rerun ==
    /\ fpc = "idle"
    /\ gen < MaxRuns
    /\ gen' = gen + 1
    /\ lastOp' = "rerun"
    /\ budget.ops > 0
    /\ budget' = [budget EXCEPT !.ops = @ - 1]
    /\ UNCHANGED bgSession
    /\ UNCHANGED << storeVars, sessionVars, fpc, threadVars >>

\* ---------------------------------------------------------- specification
Next ==
    \/ StartMqtt
    \/ \E o \in StopOutcomes : StopMqtt(o)
    \/ \E o \in StopOutcomes : RestartStop(o)
    \/ RestartStart
    \/ ClearAll
    \/ Snapshot
    \/ StatusRefresh
    \/ Rerun
    \/ \E i \in Threads, ok \in BOOLEAN : LoopConnect(i, ok)
    \/ \E i \in Threads, rc \in ResultCodes, ok \in BOOLEAN : OnConnect(i, rc, ok)
    \/ \E i \in Threads, rc \in ResultCodes : OnDisconnect(i, rc)
    \/ \E i \in Threads, t \in Topics, p \in Payloads : OnMessage(i, t, p)
    \/ \E i \in Threads : OnMessageLog(i)
    \/ \E i \in Threads : OnMessageExcept(i)
    \/ \E i \in Threads : LoopExit(i)
    \/ \E i \in Threads : LoopLogExc(i)

Spec == Init /\ [][Next]_vars

\* A thread that holds LOCK or waits for it keeps running: the holder reaches
\* the end of its with-block, and a thread waiting at "with LOCK:" in an
\* except clause takes the lock once it is free. Behaviours start with a
\* budget in which two threads can meet at one lock.
Fairness ==
    \A i \in Threads :
        /\ WF_vars(OnMessageLog(i))
        /\ WF_vars(OnMessageExcept(i))
        /\ WF_vars(LoopLogExc(i))

FairInit == InitWith({LockBudget})

FairSpec == FairInit /\ [][Next]_vars /\ Fairness

\* ------------------------------------------------------------------ claims
\* Steps of on_message of thread i: it is entered, and it returns
OnMessageEnters(i) == tpc[i] = "loop" /\ cur[i] = NoMsg /\ cur'[i] # NoMsg
OnMessageReturns(i) == tpc[i] \in {"msg_log", "msg_exc"} /\ tpc'[i] = "loop"

\* A foreground operation completes in this step
ForegroundStep == budget'.ops # budget.ops

\* C1: every channel buffer holds exactly the last BufCap values appended to
\* it since the last clear, in the order the messages were delivered.
C1_LastCInArrivalOrder ==
    \A g \in Gens, c \in Channels : STORE[g][c] = LastN(hist[g][c], BufCap)

\* C1 witness: more values than the capacity were appended to one channel,
\* among them a repeated value
C1_Witness ==
    \E g \in Gens, c \in Channels :
        /\ Len(hist[g][c]) > BufCap
        /\ \E j \in 1..(Len(hist[g][c]) - 1) : hist[g][c][j] = hist[g][c][j + 1]

\* C2: the debug log never holds more than DebugCap entries, and its
\* position 0 is the record of the most recently completed log write.
C2_DebugBoundedNewestFirst ==
    \A g \in Gens :
        /\ Len(DEBUG[g]) <= DebugCap
        /\ lastLog[g] # NoRec => (DEBUG[g] # <<>> /\ DEBUG[g][1] = lastLog[g])

\* C2 witness: the log is full and the record a live thread wrote when it
\* entered its loop has been evicted by later writes
C2_Witness ==
    \E g \in Gens, i \in Threads :
        /\ tpc[i] = "loop" /\ tgen[i] = g
        /\ Len(DEBUG[g]) = DebugCap
        /\ \A k \in 1..Len(DEBUG[g]) : DEBUG[g][k].tag # "mqtt-thread-ok"

\* C3: a snapshot holds at most BufCap values per channel, and they are the
\* buffer as it was after some prefix of the appends.
C3_SnapshotIsBufferAfterPrefix ==
    lastOp \in {"snapshot", "clear+snapshot"} =>
        \A c \in Channels :
            /\ Len(ss_store[c]) <= BufCap
            /\ \E k \in 0..Len(hist[gen][c]) :
                   ss_store[c] = LastN(SubSeq(hist[gen][c], 1, k), BufCap)

\* C3 witness: a snapshot taken between appends, the later append having
\* evicted a value the snapshot still shows
C3_Witness ==
    /\ lastOp = "snapshot"
    /\ \E c \in Channels :
           /\ Len(ss_store[c]) = BufCap
           /\ Len(hist[gen][c]) > BufCap
           /\ ss_store[c] # STORE[gen][c]

\* C4 as claimed: the snapshot that follows clear_all is empty for every
\* channel, whatever was appended after the clear returned.
C4_AsClaimed ==
    lastOp = "clear+snapshot" => \A c \in Channels : ss_store[c] = <<>>

\* C4 amended: the snapshot that follows clear_all holds, for every channel,
\* exactly the values appended after the clear released the lock (the last
\* BufCap of them, in arrival order), so none from before the clear, and it
\* is empty on every channel with no append between the clear and the snapshot.
C4_SnapshotAfterClear ==
    [][ (ForegroundStep /\ lastOp = "clear" /\ lastOp' = "clear+snapshot") =>
            \A c \in Channels : ss_store'[c] = LastN(hist[gen][c], BufCap) ]_vars

\* C4 witness: a snapshot right after a clear that shows an append made in
\* between
C4_Witness ==
    /\ lastOp = "clear+snapshot"
    /\ \E c \in Channels : ss_store[c] # <<>> /\ ss_store[c] = hist[gen][c]

\* The payload is an object with a numeric field value
HasNumericValue(p) == p.form = "obj" /\ p.has /\ IsNumeric(p.value)

\* The latest value of a buffer is the number v
LatestIs(buf, v) == v.k = "int" /\ Latest(buf) = <<v.n>>

\* What C5 asks of the steps of on_message for the message m handled by
\* thread i, for a numeric value
C5_Effect(i, m) ==
    LET g == tgen[i]
        c == LastSegment(m.topic)
    IN  /\ OnMessageEnters(i) =>
            \A d \in Channels \ {c} : STORE'[g][d] = STORE[g][d]
        /\ OnMessageReturns(i) =>
            /\ STORE' = STORE
            /\ IF c \in Channels
               THEN LatestIs(STORE'[g][c], m.payload.value)
               ELSE DEBUG'[g] # <<>> /\ DEBUG'[g][1] = MessageRec(m.topic, m.payload)

\* C5 as claimed: for every numeric value v, on_message on a known channel
\* leaves v as the latest value of that channel and the other channels
\* unchanged; on an unknown channel it changes no buffer and logs the message.
C5_AsClaimed ==
    [][ \A i \in Threads :
            /\ (OnMessageEnters(i) /\ HasNumericValue(cur'[i].payload)) =>
                   C5_Effect(i, cur'[i])
            /\ (OnMessageReturns(i) /\ HasNumericValue(cur[i].payload)) =>
                   C5_Effect(i, cur[i]) ]_vars

\* The number is one a double holds (float() returns)
FitsDouble(v) == v.k = "int"

\* C5 amended: the same, for every numeric value v within the range of a
\* double on a known channel (the latest value is then float(v)), and for
\* every numeric value on an unknown channel.
C5_LatestIsValue ==
    [][ \A i \in Threads :
            /\ (/\ OnMessageEnters(i)
                /\ HasNumericValue(cur'[i].payload)
                /\ (LastSegment(cur'[i].topic) \in Channels
                        => FitsDouble(cur'[i].payload.value))) =>
                   C5_Effect(i, cur'[i])
            /\ (/\ OnMessageReturns(i)
                /\ HasNumericValue(cur[i].payload)
                /\ (LastSegment(cur[i].topic) \in Channels
                        => FitsDouble(cur[i].payload.value))) =>
                   C5_Effect(i, cur[i]) ]_vars

\* C5 witness: a numeric message on an unknown channel was logged after a
\* numeric message on a known channel, whose value is that channel's latest
C5_Witness ==
    \E g \in Gens, c \in Channels :
        /\ Len(DEBUG[g]) >= 2
        /\ DEBUG[g][1].tag = "message" /\ DEBUG[g][1].value.k = "int"
        /\ LastSegment(DEBUG[g][1].topic) \notin Channels
        /\ DEBUG[g][2].tag = "message" /\ LastSegment(DEBUG[g][2].topic) = c
        /\ LatestIs(STORE[g][c], DEBUG[g][2].value)

\* The payload is a well-formed object without the field value
LacksValue(p) == p.form = "obj" /\ ~p.has

\* on_message of thread i, handling m, adds exactly one record to the debug
\* log over its steps, with the given tag, and changes no buffer
C6_Effect(i, m, tag) ==
    LET g == tgen[i]
    IN  /\ OnMessageEnters(i) => (STORE' = STORE /\ DEBUG' = DEBUG)
        /\ OnMessageReturns(i) =>
            /\ STORE' = STORE
            /\ DEBUG'[g] # <<>>
            /\ DEBUG'[g][1].tag = tag
            /\ DEBUG'[g][1].topic = m.topic
            /\ Tail(DEBUG'[g]) = FirstN(DEBUG[g], DebugCap - 1)
            /\ \A h \in Gens \ {g} : DEBUG'[h] = DEBUG[h]

SecondStart ==
    /\ ForegroundStep
    /\ lastOp \in {"start", "restart"}
    /\ lastOp' \in {"start", "start-noop"}
    /\ IsAlive(mqtt_thread)

\* C7 as claimed: the second of two start_mqtt calls in succession leaves
\* exactly one live background loop, creates nothing and changes no field.
C7_AsClaimed ==
    [][ SecondStart =>
            /\ Cardinality(LiveThreads') = 1
            /\ nthreads' = nthreads
            /\ mqtt_client' = mqtt_client
            /\ mqtt_thread' = mqtt_thread
            /\ mqtt_running' = mqtt_running ]_vars

\* The part of C7 that holds whatever happened before: the second call
\* creates no thread and changes no field and no thread's position.
StartIsNoOpWhileRunning ==
    [][ SecondStart =>
            /\ lastOp' = "start-noop"
            /\ LiveThreads' = LiveThreads
            /\ nthreads' = nthreads
            /\ mqtt_client' = mqtt_client
            /\ mqtt_thread' = mqtt_thread
            /\ mqtt_running' = mqtt_running ]_vars

\* C8 as claimed: at most one background thread is alive in every state.
C8_AsClaimed == Cardinality(LiveThreads) <= 1

\* A call of stop_mqtt (alone or as the first half of "Reconectar")
StopStep ==
    ForegroundStep /\ lastOp' \in {"stop", "stop-raised", "restart-stop"}

\* C9: stop_mqtt returns normally in every state, leaves the running flag
\* false and does not change the shared store.
C9_StopNeverRaises ==
    [][ StopStep =>
            /\ lastOp' # "stop-raised"
            /\ ~mqtt_running'
            /\ STORE' = STORE
            /\ DEBUG' = DEBUG ]_vars

\* C9 witness: stop_mqtt has returned although the calls on the recorded
\* client failed (no disconnect was registered on it)
C9_Witness ==
    /\ lastOp = "stop"
    /\ mqtt_client # NoHandle
    /\ ~discReq[mqtt_client]
    /\ ~mqtt_running

\* The message is one on_message cannot decode into a sample or a record
Undecodable(m) == Raises(m.topic, m.payload)

\* C10: on_message always returns to the receive loop, never raising into
\* it, and it records a message it cannot decode as a parse error.
C10_OnMessageNeverRaises ==
    [][ \A i \in Threads :
            /\ OnMessageEnters(i) =>
                   tpc'[i] = IF Undecodable(cur'[i]) THEN "msg_exc" ELSE "msg_log"
            /\ tpc[i] \in {"msg_log", "msg_exc"} => tpc'[i] \in {tpc[i], "loop"}
            /\ (OnMessageReturns(i) /\ Undecodable(cur[i])) =>
                   /\ DEBUG'[tgen[i]] # <<>>
                   /\ DEBUG'[tgen[i]][1] = ParseErrorRec(cur[i].topic) ]_vars

\* C10 witness: a thread is back in its receive loop after a message whose
\* parse error is the newest debug record
C10_Witness ==
    \E i \in Threads :
        /\ tpc[i] = "loop"
        /\ subscribed[i]
        /\ DEBUG[tgen[i]] # <<>>
        /\ DEBUG[tgen[i]][1].tag = "parse-error"

\* C11 as claimed: no callback and no step of a background thread reads or
\* writes an entry of the session state (cfg, store, debug, status, mqtt_*).
C11_AsClaimed == bgSession \cap SessionKeys = {}

\* The part of C11 that holds: a step of a background thread changes no
\* entry of the session state (it writes none of them).
BackgroundWritesNoSessionState ==
    [][ ~ForegroundStep => UNCHANGED sessionVars ]_vars

\* C12: a thread in which connect or the receive loop raised does nothing
\* but log the exception and end; a thread ends only that way or after a
\* disconnect was requested, never starts over, and a new thread (with its
\* connect attempt) appears only in a step of start_mqtt or "Reconectar".
C12_ExceptionLoggedNoRetry ==
    [][ \A i \in Threads :
            /\ tpc[i] = "exc" => tpc'[i] \in {"exc", "done"}
            /\ (tpc[i] # "done" /\ tpc'[i] = "done") =>
                   \/ tpc[i] = "loop" /\ discReq[i]
                   \/ /\ tpc[i] = "exc"
                      /\ DEBUG'[tgen[i]] # <<>>
                      /\ DEBUG'[tgen[i]][1] = ThreadExcRec
            /\ tpc[i] = "done" => tpc'[i] = "done"
            /\ tpc'[i] = "init" => tpc[i] \in {"init", "unborn"}
            /\ (tpc[i] = "unborn" /\ tpc'[i] # "unborn") =>
                   /\ ForegroundStep
                   /\ lastOp' \in {"start", "restart"}
                   /\ tpc'[i] = "init"
                   /\ nthreads' = nthreads + 1 ]_vars

\* C12 witness: a thread whose receive loop raised after on_connect has
\* logged the exception and ended, the supervisor still records it as
\* running, and no other thread was created
C12_Witness ==
    \E i \in Threads :
        /\ tpc[i] = "done"
        /\ Len(DEBUG[tgen[i]]) >= 2
        /\ DEBUG[tgen[i]][1] = ThreadExcRec
        /\ DEBUG[tgen[i]][2].tag = "on_connect"
        /\ mqtt_running /\ mqtt_thread = i
        /\ nthreads = i

\* A snapshot is taken in this step
SnapshotStep == ForegroundStep /\ lastOp' \in {"snapshot", "clear+snapshot"}

\* C13 as claimed: in every script run the buffers the snapshot copies are
\* the buffers the callbacks of every live thread append to, so the snapshot
\* shows what those threads appended (and was not cleared or evicted).
C13_AsClaimed ==
    [][ SnapshotStep =>
            \A i \in Threads :
                IsAlive(i) => \A c \in Channels : ss_store'[c] = STORE[tgen[i]][c] ]_vars

\* What holds instead: the snapshot shows the buffers of the module of the
\* current script run, whichever buffers the live threads append to.
SnapshotReadsCurrentRun ==
    [][ SnapshotStep => \A c \in Channels : ss_store'[c] = STORE[gen][c] ]_vars

\* C14 as claimed: when stop_mqtt returns with a client recorded, disconnect
\* has been requested on that client, and no thread has changed position
\* (stop_mqtt did not wait for the thread to end).
C14_AsClaimed ==
    [][ (StopStep /\ mqtt_client # NoHandle) =>
            /\ discReq'[mqtt_client]
            /\ tpc' = tpc ]_vars

\* The part of C14 that holds: stop_mqtt does not wait for any thread, and
\* the only disconnect it requests is on the recorded client.
StopDoesNotWait ==
    [][ StopStep =>
            /\ tpc' = tpc
            /\ \A i \in Threads : discReq'[i] # discReq[i] =>
                   (i = mqtt_client /\ discReq'[i]) ]_vars

\* A thread stands at a "with LOCK:" it has not entered yet
WaitsForLock(i) == tpc[i] \in {"msg_exc", "exc"}

\* C15: LOCK is only ever held by a thread inside the with-block of
\* on_message, which holds no other lock and has nothing left to do but log
\* and release; so every held lock is released, and every thread waiting
\* for LOCK gets it.
C15_LockAlwaysGranted ==
    /\ [](\A g \in Gens : LOCK[g] # Unlocked =>
            /\ LOCK[g] \in Threads
            /\ tpc[LOCK[g]] = "msg_log"
            /\ tgen[LOCK[g]] = g
            /\ \A h \in Gens \ {g} : LOCK[h] # LOCK[g])
    /\ \A g \in Gens : (LOCK[g] # Unlocked) ~> (LOCK[g] = Unlocked)
    /\ \A i \in Threads : WaitsForLock(i) ~> ~WaitsForLock(i)

\* C15 witness: a thread waits for the lock another thread holds
C15_Witness ==
    \E i, j \in Threads :
        /\ i # j /\ tgen[i] = tgen[j]
        /\ LOCK[tgen[i]] = i
        /\ WaitsForLock(j)

\* C16: an invocation of on_disconnect prepends exactly one record, its own,
\* to the debug log of its run and to no other; it changes no channel
\* buffer, none of the recorded client, thread and running flag, and no
\* thread's position or number (no connect or reconnect); no client gains a
\* subscription and none is asked to disconnect.
C16_OnDisconnectOnlyRecords ==
    [][ \A i \in Threads, rc \in ResultCodes :
            OnDisconnect(i, rc) =>
                /\ DEBUG'[tgen[i]] =
                       <<DisconnectRec(rc)>> \o FirstN(DEBUG[tgen[i]], DebugCap - 1)
                /\ \A h \in Gens \ {tgen[i]} : DEBUG'[h] = DEBUG[h]
                /\ STORE' = STORE
                /\ mqtt_client' = mqtt_client
                /\ mqtt_thread' = mqtt_thread
                /\ mqtt_running' = mqtt_running
                /\ nthreads' = nthreads
                /\ tpc' = tpc
                /\ \A j \in Threads : subscribed'[j] => subscribed[j]
                /\ discReq' = discReq ]_vars

\* C16 witness: on_disconnect was the last to write the log, after an
\* on_connect; its thread is still in the receive loop, still the recorded
\* one, still marked running, and no other thread exists
C16_Witness ==
    \E i \in Threads :
        /\ tpc[i] = "loop"
        /\ Len(DEBUG[tgen[i]]) >= 2
        /\ DEBUG[tgen[i]][1].tag = "on_disconnect"
        /\ DEBUG[tgen[i]][2].tag = "on_connect"
        /\ mqtt_running /\ mqtt_thread = i /\ nthreads = i
        /\ ~subscribed[i]

\* A foreground operation that takes the lock of the current run completes
LockedForegroundStep ==
    ForegroundStep /\ lastOp' \in {"snapshot", "clear+snapshot", "clear", "status"}

\* C17: a message that is appended enters the critical section with its
\* append; from the append to the log of its record the thread holds the
\* lock of its run, nothing else changes the buffers or the log of that run,
\* and no snapshot, clear or status read of that run takes place; the next
\* step of the thread logs the record and leaves. So a snapshot is never
\* taken between the two effects of a message.
C17_AppendAndLogAtomic ==
    [][ \A i \in Threads :
            /\ (OnMessageEnters(i) /\ Accepted(cur'[i].topic, cur'[i].payload)) =>
                   (tpc'[i] = "msg_log" /\ LOCK'[tgen[i]] = i)
            /\ tpc[i] = "msg_log" =>
                   /\ LOCK[tgen[i]] = i
                   /\ ~(LockedForegroundStep /\ gen = tgen[i])
                   /\ IF tpc'[i] = "msg_log"
                      THEN /\ STORE'[tgen[i]] = STORE[tgen[i]]
                           /\ DEBUG'[tgen[i]] = DEBUG[tgen[i]]
                      ELSE /\ tpc'[i] = "loop"
                           /\ STORE' = STORE
                           /\ DEBUG'[tgen[i]] # <<>>
                           /\ DEBUG'[tgen[i]][1] = MessageRec(cur[i].topic, cur[i].payload) ]_vars

\* C17 witness: a thread of the current run stands between its append and
\* its log while the foreground, which took a snapshot before the append,
\* has operations left to try
C17_Witness ==
    \E i \in Threads, c \in Channels :
        /\ tpc[i] = "msg_log" /\ tgen[i] = gen /\ LOCK[gen] = i
        /\ LastSegment(cur[i].topic) = c
        /\ lastOp = "snapshot"
        /\ ss_store[c] # STORE[gen][c]
        /\ budget.ops > 0

\* The channels of run g to which the step appends a sample
AppendedTo(g) == {c \in Channels : hist'[g][c] # hist[g][c]}

\* C18: an invocation of on_message writes no record when it is entered and
\* exactly one when it returns, a message record or a parse-error record;
\* it appends at most one sample, to one channel of its run, when it is
\* entered and none afterwards; and it appends none when the record it
\* goes on to write is a parse error.
C18_OneRecordAtMostOneSample ==
    [][ \A i \in Threads :
            /\ OnMessageEnters(i) =>
                   /\ DEBUG' = DEBUG
                   /\ tpc'[i] \in {"msg_log", "msg_exc"}
                   /\ Cardinality(AppendedTo(tgen[i])) <= 1
                   /\ \A c \in AppendedTo(tgen[i]) :
                          /\ Len(hist'[tgen[i]][c]) = Len(hist[tgen[i]][c]) + 1
                          /\ c = LastSegment(cur'[i].topic)
                   /\ \A c \in Channels \ AppendedTo(tgen[i]) :
                          STORE'[tgen[i]][c] = STORE[tgen[i]][c]
                   /\ \A h \in Gens \ {tgen[i]} : STORE'[h] = STORE[h] /\ hist'[h] = hist[h]
                   /\ tpc'[i] = "msg_exc" => AppendedTo(tgen[i]) = {}
            /\ OnMessageReturns(i) =>
                   /\ STORE' = STORE /\ hist' = hist
                   /\ DEBUG'[tgen[i]] # <<>>
                   /\ Tail(DEBUG'[tgen[i]]) = FirstN(DEBUG[tgen[i]], DebugCap - 1)
                   /\ DEBUG'[tgen[i]][1].topic = cur[i].topic
                   /\ DEBUG'[tgen[i]][1].tag =
                          IF tpc[i] = "msg_log" THEN "message" ELSE "parse-error"
                   /\ \A h \in Gens \ {tgen[i]} : DEBUG'[h] = DEBUG[h] ]_vars

\* C18 witness: two messages on one channel were handled, the first
\* appended its sample and logged a message record, the second logged a
\* parse error and appended nothing
C18_Witness ==
    \E g \in Gens, c \in Channels :
        /\ Len(DEBUG[g]) >= 2
        /\ DEBUG[g][1].tag = "parse-error" /\ LastSegment(DEBUG[g][1].topic) = c
        /\ DEBUG[g][2].tag = "message" /\ LastSegment(DEBUG[g][2].topic) = c
        /\ DEBUG[g][2].value.k = "int"
        /\ hist[g][c] = <<DEBUG[g][2].value.n>>
        /\ STORE[g][c] = hist[g][c]

\* C19 as claimed: every live thread other than the recorded one belongs to
\* a client on which disconnect has been requested.
C19_AsClaimed ==
    \A i \in LiveThreads : i # mqtt_thread => discReq[i]

\* The part of C19 that holds: start_mqtt replaces the recorded thread only
\* when the running flag is off or that thread has ended.
StartReplacesOnlyWhenNotRunning ==
    [][ (nthreads' # nthreads /\ mqtt_thread # NoHandle) =>
            (~mqtt_running \/ ~IsAlive(mqtt_thread)) ]_vars

\* The consumer computes the status in this step
StatusStep == ForegroundStep /\ lastOp' = "status"

\* The newest line of the log of the current run
HeadIs(rec) == DEBUG[gen] # <<>> /\ DEBUG[gen][1] = rec

\* The newest line of the log of the current run shows a topic (a message
\* or a parse error) whose text holds the status marker
HeadShowsMarkerTopic ==
    /\ DEBUG[gen] # <<>>
    /\ DEBUG[gen][1].tag \in {"message", "parse-error"}
    /\ LastSegment(DEBUG[gen][1].topic) = StatusMarker

====
